---- MODULE Spec2Model ----
(***************************************************************************)
(* combine_files (src/src/combine_files.py): discovery of candidate files  *)
(* from directory walks and glob expansion, exclusion filtering, sorting,  *)
(* and the sequential merge into one output file.                          *)
(*                                                                         *)
(* Path strings are sequences of one-character strings, so that wildcard   *)
(* matching, normalisation and lexicographic comparison are computed on    *)
(* the characters as the Python code computes them.                        *)
(***************************************************************************)
EXTENDS Integers, Sequences, FiniteSets, TLC

\* -------------------------------------------------------------- bounds
MaxInputs == 2
MaxPats == 2

\* ------------------------------------------------------- string helpers
SEP == "/"

\* Code point of a character (Python compares str by code point).
Ord(c) ==
    CASE c = "!" -> 33 [] c = "*" -> 42 [] c = "-" -> 45 [] c = "." -> 46
      [] c = "/" -> 47 [] c = "?" -> 63 [] c = "[" -> 91 [] c = "]" -> 93
      [] c = "a" -> 97 [] c = "c" -> 99 [] c = "d" -> 100
      [] c = "e" -> 101 [] c = "h" -> 104 [] c = "l" -> 108 [] c = "m" -> 109
      [] c = "n" -> 110 [] c = "o" -> 111 [] c = "t" -> 116 [] c = "x" -> 120

\* str.__lt__: lexicographic order on code points.
StrLess(s, t) ==
    \E k \in 1..Len(t) :
        /\ k <= Len(s) + 1
        /\ \A j \in 1..(k - 1) : s[j] = t[j]
        /\ \/ k = Len(s) + 1
           \/ Ord(s[k]) < Ord(t[k])

\* str.startswith
StartsWith(s, pre) ==
    /\ Len(pre) <= Len(s)
    /\ SubSeq(s, 1, Len(pre)) = pre

\* str.endswith(SEP)
EndsWithSep(s) == Len(s) > 0 /\ s[Len(s)] = SEP

\* str.split('/')
RECURSIVE Split(_)
Split(s) ==
    IF \A k \in 1..Len(s) : s[k] # SEP
    THEN <<s>>
    ELSE LET k == CHOOSE k \in 1..Len(s) :
                      s[k] = SEP /\ \A j \in 1..(k - 1) : s[j] # SEP
         IN  <<SubSeq(s, 1, k - 1)>> \o Split(SubSeq(s, k + 1, Len(s)))

\* '/'.join(comps)
RECURSIVE JoinSep(_)
JoinSep(comps) ==
    IF comps = <<>> THEN <<>>
    ELSE IF Len(comps) = 1 THEN comps[1]
    ELSE comps[1] \o <<SEP>> \o JoinSep(Tail(comps))

\* Index of the last '/' in s, 0 when there is none (str.rfind + 1).
LastSep(s) ==
    IF \A k \in 1..Len(s) : s[k] # SEP THEN 0
    ELSE CHOOSE k \in 1..Len(s) :
             s[k] = SEP /\ \A j \in (k + 1)..Len(s) : s[j] # SEP

\* str.rstrip('/')
RECURSIVE RStripSep(_)
RStripSep(s) ==
    IF EndsWithSep(s) THEN RStripSep(SubSeq(s, 1, Len(s) - 1)) ELSE s

\* os.path.basename
Basename(p) == SubSeq(p, LastSep(p) + 1, Len(p))

\* os.path.dirname (the head of os.path.split)
Dirname(p) ==
    LET head == SubSeq(p, 1, LastSep(p))
    IN  IF head # <<>> /\ RStripSep(head) # <<>> THEN RStripSep(head) ELSE head

\* os.path.join(a, b)
PathJoin(a, b) ==
    IF StartsWith(b, <<SEP>>) THEN b
    ELSE IF a = <<>> \/ EndsWithSep(a) THEN a \o b
    ELSE a \o <<SEP>> \o b

\* The component loop of posixpath.normpath.
RECURSIVE NormComps(_, _, _)
NormComps(comps, acc, rooted) ==
    IF comps = <<>> THEN acc
    ELSE LET comp == Head(comps)
             rest == Tail(comps)
         IN  IF comp = <<>> \/ comp = <<".">>
             THEN NormComps(rest, acc, rooted)
             ELSE IF \/ comp # <<".", ".">>
                     \/ (~rooted /\ acc = <<>>)
                     \/ (acc # <<>> /\ acc[Len(acc)] = <<".", ".">>)
             THEN NormComps(rest, Append(acc, comp), rooted)
             ELSE IF acc # <<>>
             THEN NormComps(rest, SubSeq(acc, 1, Len(acc) - 1), rooted)
             ELSE NormComps(rest, acc, rooted)

\* os.path.normpath
Normpath(path) ==
    IF path = <<>> THEN <<".">>
    ELSE LET rooted == StartsWith(path, <<SEP>>)
             slashes == IF StartsWith(path, <<SEP, SEP>>)
                           /\ ~StartsWith(path, <<SEP, SEP, SEP>>)
                        THEN <<SEP, SEP>>
                        ELSE IF rooted THEN <<SEP>> ELSE <<>>
             joined == slashes \o JoinSep(NormComps(Split(path), <<>>, rooted))
         IN  IF joined = <<>> THEN <<".">> ELSE joined

\* ---------------------------------------------------------- fnmatch
\* Position of the ']' closing the class opened at p[j] = '[', 0 if none
\* (fnmatch.translate: a leading '!' and a leading ']' belong to the class).
ClassEnd(p, j) ==
    LET j1 == IF j + 1 <= Len(p) /\ p[j + 1] = "!" THEN j + 2 ELSE j + 1
        j2 == IF j1 <= Len(p) /\ p[j1] = "]" THEN j1 + 1 ELSE j1
    IN  IF \A k \in j2..Len(p) : p[k] # "]" THEN 0
        ELSE CHOOSE k \in j2..Len(p) :
                 p[k] = "]" /\ \A m \in j2..(k - 1) : p[m] # "]"

\* Membership of c in the character set written between '[' and ']'.
InClass(c, stuff) ==
    LET neg  == stuff # <<>> /\ stuff[1] = "!"
        body == IF neg THEN Tail(stuff) ELSE stuff
        hit  == \/ \E k \in 1..Len(body) :
                       body[k] = c /\ ~(c = "-" /\ 1 < k /\ k < Len(body))
                \/ \E k \in 2..(Len(body) - 1) :
                       /\ body[k] = "-"
                       /\ Ord(body[k - 1]) <= Ord(c)
                       /\ Ord(c) <= Ord(body[k + 1])
    IN  IF neg THEN ~hit ELSE hit

RECURSIVE MatchFrom(_, _, _, _)
MatchFrom(n, i, p, j) ==
    IF j > Len(p) THEN i > Len(n)
    ELSE IF p[j] = "*"
    THEN MatchFrom(n, i, p, j + 1) \/ (i <= Len(n) /\ MatchFrom(n, i + 1, p, j))
    ELSE IF p[j] = "?"
    THEN i <= Len(n) /\ MatchFrom(n, i + 1, p, j + 1)
    ELSE IF p[j] = "[" /\ ClassEnd(p, j) # 0
    THEN /\ i <= Len(n)
         /\ InClass(n[i], SubSeq(p, j + 1, ClassEnd(p, j) - 1))
         /\ MatchFrom(n, i + 1, p, ClassEnd(p, j) + 1)
    ELSE i <= Len(n) /\ n[i] = p[j] /\ MatchFrom(n, i + 1, p, j + 1)

\* fnmatch.fnmatch(name, pat) on POSIX (normcase is the identity).
Fnmatch(name, pat) == MatchFrom(name, 1, pat, 1)

\* ------------------------------------------------------- the file system
\* Directories that exist (normalised); "." is the working directory.
DirSet == { <<".">>, <<"d">>, <<"d", "/", ".", "h">> }

\* Source files that exist (normalised), never changed by a run.
SourceFiles ==
    { <<"t">>, <<"d", "/", "a">>, <<"d", "/", ".", "c">>,
      <<"d", "/", ".", "h", "/", "e">> }

\* Output paths the operator may name: outside the inputs, inside the
\* input directory d, and below a directory that does not exist.
OutputFiles == { <<"o">>, <<"d", "/", "o">>, <<"n", "/", "o">> }

FileKeys == SourceFiles \cup { Normpath(o) : o \in OutputFiles }

\* The content of a file is a sequence of entries <<kind, argument>>.
RawContent(f) == << <<"raw", f>> >>
OldContent == << <<"raw", <<"o", "l", "d">>>> >>

VARIABLES
    input_paths,       \* argument: the input specifications
    exclude_patterns,  \* argument: the exclusion patterns
    include_hidden,    \* argument: --include-hidden
    output_file,       \* argument: the output path
    use_absolute_paths,\* argument: --absolute
    faulty,            \* environment: opening, reading and writing can raise
    fs,                \* existing regular files: normalised path -> content
    perm,              \* per file: "?" (not yet tried), "ok", "noopen", "noread"
    pc,                \* position in combine_files
    idx,               \* loop index (discovery, then merge)
    candidate_files,   \* set of discovered path strings
    files_to_process,  \* list of surviving path strings
    console,           \* operator-facing messages of this run
    exit_code,         \* -1 while running, then the process exit status
    outfile,           \* output handle: "none", "open", "closed"
    out_closes,        \* number of times the output handle was closed
    infile,            \* set of source paths whose read handle is open
    opened_sources,    \* source paths a read-open was attempted on, this run
    blocks,            \* paths whose header was written, in order, this run
    wfail,             \* a write to the output raised in this run
    run,               \* 1 in the first run, 2 when the command is run again
    prev               \* the output file as it was when this run started,
                       \* and the previous run's exit status and wfail

vars == << input_paths, exclude_patterns, include_hidden, output_file,
           use_absolute_paths, faulty, fs, perm, pc, idx, candidate_files, files_to_process, console,
           exit_code, outfile, out_closes, infile, opened_sources, blocks,
           wfail, run, prev >>

args == << input_paths, exclude_patterns, include_hidden, output_file,
          use_absolute_paths, faulty >>

\* os.path.isdir / os.path.isfile / os.path.lexists
IsDir(p) == Normpath(p) \in DirSet
IsFile(p) == Normpath(p) \in DOMAIN fs
Exists(p) == IsDir(p) \/ IsFile(p)

ParentOf(e) == Normpath(Dirname(e))

\* Names of the sub-directories and of the files directly in directory dir.
ListDirs(dir) ==
    { Basename(e) : e \in { x \in DirSet \ {<<".">>} : ParentOf(x) = Normpath(dir) } }
ListFiles(dir) ==
    { Basename(e) : e \in { x \in DOMAIN fs : ParentOf(x) = Normpath(dir) } }

\* str.startswith('.')
IsHiddenName(name) == StartsWith(name, <<".">>)

\* The pruning of os.walk's dirnames and filenames.
KeepName(name, inc_hidden) == inc_hidden \/ ~IsHiddenName(name)

\* The files added by the directory branch: os.walk(dirpath, topdown=True).
RECURSIVE Walk(_, _)
Walk(dirpath, inc_hidden) ==
    LET dirnames  == { n \in ListDirs(dirpath) : KeepName(n, inc_hidden) }
        filenames == { n \in ListFiles(dirpath) : KeepName(n, inc_hidden) }
    IN  { PathJoin(dirpath, n) : n \in filenames }
        \cup UNION { Walk(PathJoin(dirpath, n), inc_hidden) : n \in dirnames }

\* glob.has_magic
HasMagic(s) == \E k \in 1..Len(s) : s[k] \in {"*", "?", "["}

\* glob._glob1 / glob._glob0: the names in directory dir matching basename.
GlobNames(dir, basename, dironly) ==
    LET names == ListDirs(dir) \cup (IF dironly THEN {} ELSE ListFiles(dir))
    IN  IF HasMagic(basename)
        THEN { n \in names :
                 /\ IsHiddenName(basename) \/ ~IsHiddenName(n)
                 /\ Fnmatch(n, basename) }
        ELSE IF basename = <<>>
        THEN (IF IsDir(dir) THEN {basename} ELSE {})
        ELSE (IF Exists(PathJoin(dir, basename)) THEN {basename} ELSE {})

\* glob.glob(pathname, recursive=True) for patterns without a '**' segment.
RECURSIVE GlobIn(_, _)
GlobIn(pathname, dironly) ==
    LET dirname  == Dirname(pathname)
        basename == Basename(pathname)
    IN  IF ~HasMagic(pathname)
        THEN IF basename # <<>>
             THEN (IF Exists(pathname) THEN {pathname} ELSE {})
             ELSE (IF IsDir(dirname) THEN {pathname} ELSE {})
        ELSE IF dirname = <<>>
        THEN GlobNames(<<>>, basename, dironly)
        ELSE LET dirs == IF dirname # pathname /\ HasMagic(dirname)
                         THEN GlobIn(dirname, TRUE)
                         ELSE {dirname}
             IN  UNION { { PathJoin(d, n) : n \in GlobNames(d, basename, dironly) }
                         : d \in dirs }

Glob(pathname) == GlobIn(pathname, FALSE)

\* Line 66: the test the code makes before it warns.
WarnsFor(path) ==
    /\ Glob(path) = {}
    /\ \A k \in 1..Len(path) : path[k] # "*"
    /\ \A k \in 1..Len(path) : path[k] # "?"

\* Line 74: some segment of the path is hidden.
HasHiddenSegment(f_path) ==
    LET segs == Split(f_path)
    IN  \E k \in 1..Len(segs) :
            /\ IsHiddenName(segs[k])
            /\ segs[k] # <<".">>
            /\ segs[k] # <<".", ".">>

\* Lines 69-76: the files added by the glob branch.
GlobFiles(path, inc_hidden) ==
    { f \in Glob(path) : IsFile(f) /\ (inc_hidden \/ ~HasHiddenSegment(f)) }

\* Lines 87-94: the tests made for one pattern.
PatternExcludes(f, pattern) ==
    \/ Fnmatch(Basename(f), pattern)
    \/ Fnmatch(f, pattern)
    \/ /\ EndsWithSep(pattern)
       /\ StartsWith(Normpath(f), Normpath(pattern) \o <<SEP>>)

\* Lines 82-94: the loop over the patterns, leaving at the first match.
RECURSIVE ExcludedFrom(_, _, _)
ExcludedFrom(f, patterns, k) ==
    IF k > Len(patterns) THEN FALSE
    ELSE IF PatternExcludes(f, patterns[k]) THEN TRUE
    ELSE ExcludedFrom(f, patterns, k + 1)

\* Mutant of IsExcluded: only the first pattern is tried.
FirstPatternOnly(f, patterns) ==
    patterns # <<>> /\ PatternExcludes(f, patterns[1])

IsExcluded(f, patterns) == ExcludedFrom(f, patterns, 1)

\* Lines 79-98: the candidates kept by the filter.
Surviving(cands, patterns) ==
    IF patterns # <<>>
    THEN { f \in cands : ~IsExcluded(f, patterns) }
    ELSE cands

\* The orders a set may be iterated in.
RECURSIVE Orders(_)
Orders(S) ==
    IF S = {} THEN { <<>> }
    ELSE UNION { { <<x>> \o q : q \in Orders(S \ {x}) } : x \in S }

\* Mutant of SortList: the list is left in iteration order.
NoSort(l) == l

\* list.sort(): insertion into the sorted tail.
RECURSIVE SortList(_)
SortList(l) ==
    IF l = <<>> THEN <<>>
    ELSE LET rest == SortList(Tail(l))
             x    == Head(l)
             n    == Cardinality({ k \in 1..Len(rest) : StrLess(rest[k], x) })
         IN  SubSeq(rest, 1, n) \o <<x>> \o SubSeq(rest, n + 1, Len(rest))

\* Mutant of NoFiles: the emptiness test is missing.
NeverEmpty(files) == FALSE

\* Line 101: "if not files_to_process".
NoFiles(files) == Len(files) = 0

\* open(output_file, 'w') succeeds: the parent directory exists and the path
\* is not itself a directory.
CanOpenForWrite(p) == IsDir(Dirname(p)) /\ ~IsDir(p)

\* Function f with key k (re)bound to v.
Put(f, k, v) == [x \in DOMAIN f \cup {k} |-> IF x = k THEN v ELSE f[x]]

OutKey == Normpath(output_file)
OutContent == IF OutKey \in DOMAIN fs THEN fs[OutKey] ELSE <<>>
\* The output file as a sequence of at most one content (absent: <<>>).
OutState == IF OutKey \in DOMAIN fs THEN <<fs[OutKey]>> ELSE <<>>

\* outfile.write(entries)
WriteOut(entries) == fs' = Put(fs, OutKey, OutContent \o entries)

\* os.getcwd() and os.path.abspath
Cwd == <<"/", "w">>
Abspath(p) == Normpath(PathJoin(Cwd, p))

\* Line 120: the path shown in the header.
HeaderPath(filepath) ==
    IF use_absolute_paths THEN Abspath(filepath) ELSE filepath

Separator == << <<"sep", <<>>>> >>
Header(filepath) == << <<"hdr", HeaderPath(filepath)>> >>
ErrorMarker(filepath) == << <<"err", filepath>> >>

\* ------------------------------------------------------------ the inputs
\* Input specifications: the directory d, the hidden directory d/.h, a
\* literal hidden file, a literal file written with a leading "./", a
\* wildcard with matches, a single-character wildcard (it matches the files
\* t and o of the working directory), and a literal and a character class
\* that match nothing.
InputSpecs ==
    { <<"d">>, <<"d", "/", ".", "h">>, <<"d", "/", ".", "c">>,
      <<".", "/", "d", "/", "a">>, <<"d", "/", "*">>, <<"?">>,
      <<"m">>, <<"[", "m", "]">> }

\* Exclusion patterns: a base name, a wildcard on the full path, two
\* directory prefixes, a character class on the base name, no match at all.
ExcludeSpecs ==
    { <<"a">>, <<"d", "/", "*">>, <<"d", "/">>, <<".", "/", "d", "/">>,
      <<"[", "a", "o", "]">>, <<"x">> }

SeqsOf(S, lo, hi) == UNION { [1..n -> S] : n \in lo..hi }

\* The command lines explored: every list of input specifications with a
\* few exclusion lists, every exclusion list with a few input lists (both
\* in an environment without I/O errors and with a fresh output o), and a
\* few command lines with every output path and both header forms, with
\* and without I/O errors.
FewInputs ==
    { << <<"d">> >>, << <<".", "/", "d", "/", "a">>, <<"d">> >>,
      << <<"d">>, <<"?">> >> }
FewExcludes == { <<>>, << <<"a">> >>, << <<"d", "/", "*">> >> }
FaultInputs == { << <<"d">>, <<"?">> >>, << <<"d", "/", ".", "h">>, <<"d">> >> }
FaultExcludes == { <<>>, << <<"x">>, <<"a">> >>, << <<"d", "/", "*">> >> }

CommandLines ==
    [inputs : SeqsOf(InputSpecs, 1, MaxInputs), excludes : FewExcludes,
     hidden : BOOLEAN, output : { <<"o">> }, old : {FALSE},
     absolute : {FALSE}, faulty : {FALSE}]
    \cup
    [inputs : FewInputs, excludes : SeqsOf(ExcludeSpecs, 0, MaxPats),
     hidden : BOOLEAN, output : { <<"o">> }, old : {FALSE},
     absolute : {FALSE}, faulty : {FALSE}]
    \cup
    { c \in [inputs : FaultInputs, excludes : FaultExcludes,
             hidden : {FALSE}, output : OutputFiles, old : BOOLEAN,
             absolute : BOOLEAN, faulty : BOOLEAN] :
        c.old => c.output = <<"o">> }

Init ==
    /\ \E c \in CommandLines :
        /\ input_paths = c.inputs
        /\ exclude_patterns = c.excludes
        /\ include_hidden = c.hidden
        /\ output_file = c.output
        /\ use_absolute_paths = c.absolute
        /\ faulty = c.faulty
        /\ fs = [f \in SourceFiles \cup (IF c.old THEN {Normpath(c.output)} ELSE {})
                   |-> IF f \in SourceFiles THEN RawContent(f) ELSE OldContent]
    /\ perm = [f \in FileKeys |-> "?"]
    /\ pc = "discover"
    /\ idx = 1
    /\ candidate_files = {}
    /\ files_to_process = <<>>
    /\ console = <<>>
    /\ exit_code = -1
    /\ outfile = "none"
    /\ out_closes = 0
    /\ infile = {}
    /\ opened_sources = {}
    /\ blocks = <<>>
    /\ wfail = FALSE
    /\ run = 1
    /\ prev = [out |-> OutState, exit |-> -1, wfail |-> FALSE]

\* ----------------------------------------------------------- discovery
\* Lines 51-62: an input specification that is an existing directory.
DiscoverDir ==
    /\ pc = "discover"
    /\ idx <= Len(input_paths)
    /\ IsDir(input_paths[idx])
    /\ candidate_files' =
           candidate_files \cup Walk(input_paths[idx], include_hidden)
    /\ idx' = idx + 1
    /\ UNCHANGED << args, fs, perm, pc, files_to_process, console, exit_code,
                    outfile, out_closes, infile, opened_sources, blocks,
                    wfail, run, prev >>

\* Lines 64-76: any other input specification, expanded by glob.
DiscoverGlob ==
    /\ pc = "discover"
    /\ idx <= Len(input_paths)
    /\ ~IsDir(input_paths[idx])
    /\ console' = IF WarnsFor(input_paths[idx])
                  THEN Append(console, <<"warn", input_paths[idx]>>)
                  ELSE console
    /\ candidate_files' =
           candidate_files \cup GlobFiles(input_paths[idx], include_hidden)
    /\ idx' = idx + 1
    /\ UNCHANGED << args, fs, perm, pc, files_to_process, exit_code, outfile,
                    out_closes, infile, opened_sources, blocks, wfail, run,
                    prev >>

\* Lines 79-98: the filter; the list is built in the set's iteration order.
Filter ==
    /\ pc = "discover"
    /\ idx > Len(input_paths)
    /\ files_to_process' \in Orders(Surviving(candidate_files, exclude_patterns))
    /\ pc' = "check"
    /\ UNCHANGED << args, fs, perm, idx, candidate_files, console, exit_code,
                    outfile, out_closes, infile, opened_sources, blocks,
                    wfail, run, prev >>

\* Lines 101-103: nothing left, sys.exit(1).
EmptyExit ==
    /\ pc = "check"
    /\ NoFiles(files_to_process)
    /\ console' = Append(console, <<"empty", <<>>>>)
    /\ exit_code' = 1
    /\ pc' = "done"
    /\ UNCHANGED << args, fs, perm, idx, candidate_files, files_to_process,
                    outfile, out_closes, infile, opened_sources, blocks,
                    wfail, run, prev >>

\* Lines 106-112: sort, then list the files on the console.
SortAndList ==
    /\ pc = "check"
    /\ ~NoFiles(files_to_process)
    /\ files_to_process' = SortList(files_to_process)
    /\ console' = Append(console, <<"list", output_file>>)
    /\ pc' = "open"
    /\ UNCHANGED << args, fs, perm, idx, candidate_files, exit_code, outfile,
                    out_closes, infile, opened_sources, blocks, wfail, run,
                    prev >>

\* --------------------------------------------------------------- merge
\* Mutant of OpenOutput: the output is opened in append mode.
OpenOutputAppend ==
    /\ pc = "open"
    /\ CanOpenForWrite(output_file)
    /\ fs' = Put(fs, OutKey, OutContent)
    /\ outfile' = "open"
    /\ idx' = 1
    /\ pc' = IF files_to_process = <<>> THEN "finish" ELSE "header"
    /\ UNCHANGED << args, perm, candidate_files, files_to_process, console,
                    exit_code, out_closes, infile, opened_sources, blocks,
                    wfail, run, prev >>

\* Line 115: open(output_file, 'w') succeeds and truncates.
OpenOutput ==
    /\ pc = "open"
    /\ CanOpenForWrite(output_file)
    /\ fs' = Put(fs, OutKey, <<>>)
    /\ outfile' = "open"
    /\ idx' = 1
    /\ pc' = IF files_to_process = <<>> THEN "finish" ELSE "header"
    /\ UNCHANGED << args, perm, candidate_files, files_to_process, console,
                    exit_code, out_closes, infile, opened_sources, blocks,
                    wfail, run, prev >>

\* Mutant of OpenOutputFail: the handler reports but does not exit.
OpenOutputFailSilent ==
    /\ pc = "open"
    /\ ~CanOpenForWrite(output_file)
    /\ console' = Append(console, <<"outerr", output_file>>)
    /\ exit_code' = 0
    /\ pc' = "done"
    /\ UNCHANGED << args, fs, perm, idx, candidate_files, files_to_process,
                    outfile, out_closes, infile, opened_sources, blocks,
                    wfail, run, prev >>

\* Lines 115, 135-137: open raises IOError; reported, sys.exit(1).
OpenOutputFail ==
    /\ pc = "open"
    /\ ~CanOpenForWrite(output_file)
    /\ console' = Append(console, <<"outerr", output_file>>)
    /\ exit_code' = 1
    /\ pc' = "done"
    /\ UNCHANGED << args, fs, perm, idx, candidate_files, files_to_process,
                    outfile, out_closes, infile, opened_sources, blocks,
                    wfail, run, prev >>

\* Leaving the "with open(output_file...)" block on an IOError raised by a
\* write to the output: the handle is closed, lines 135-137 report and exit.
AbortOnWrite ==
    /\ faulty
    /\ wfail' = TRUE
    /\ outfile' = "closed"
    /\ out_closes' = out_closes + 1
    /\ console' = Append(console, <<"outerr", output_file>>)
    /\ exit_code' = 1
    /\ pc' = "done"

\* Lines 117-121: the separator (after the first block) and the header.
WriteHeader ==
    /\ pc = "header"
    /\ WriteOut((IF idx > 1 THEN Separator ELSE <<>>)
                \o Header(files_to_process[idx]))
    /\ blocks' = Append(blocks, files_to_process[idx])
    /\ pc' = "opensrc"
    /\ UNCHANGED << args, perm, idx, candidate_files, files_to_process,
                    console, exit_code, outfile, out_closes, infile,
                    opened_sources, wfail, run, prev >>

\* Lines 117-121: one of the two writes raises IOError.
WriteHeaderFail ==
    /\ pc = "header"
    /\ \/ UNCHANGED fs
       \/ idx > 1 /\ WriteOut(Separator)
    /\ AbortOnWrite
    /\ UNCHANGED << args, perm, idx, candidate_files, files_to_process,
                    infile, opened_sources, blocks, run, prev >>

CurFile == files_to_process[idx]
CurKey == Normpath(CurFile)

\* What opening and reading CurFile can do: as decided the first time.
Outcomes == IF perm[CurKey] # "?" THEN {perm[CurKey]}
            ELSE IF faulty THEN {"ok", "noopen", "noread"}
            ELSE {"ok"}

\* Line 124: open(filepath, 'r') succeeds.
OpenSource ==
    /\ pc = "opensrc"
    /\ \E k \in Outcomes \ {"noopen"} : perm' = [perm EXCEPT ![CurKey] = k]
    /\ infile' = infile \cup {CurFile}
    /\ opened_sources' = opened_sources \cup {CurFile}
    /\ pc' = "copy"
    /\ UNCHANGED << args, fs, idx, candidate_files, files_to_process, console,
                    exit_code, outfile, out_closes, blocks, wfail, run, prev >>

\* Mutant of OpenSourceFail: the error escapes the per-file handler and
\* reaches the handler of lines 135-137.
OpenSourceFailFatal ==
    /\ pc = "opensrc"
    /\ "noopen" \in Outcomes
    /\ perm' = [perm EXCEPT ![CurKey] = "noopen"]
    /\ opened_sources' = opened_sources \cup {CurFile}
    /\ outfile' = "closed"
    /\ out_closes' = out_closes + 1
    /\ console' = Append(console, <<"outerr", output_file>>)
    /\ exit_code' = 1
    /\ pc' = "done"
    /\ UNCHANGED << args, fs, idx, candidate_files, files_to_process, infile,
                    blocks, wfail, run, prev >>

\* Line 124: open(filepath, 'r') raises.
OpenSourceFail ==
    /\ pc = "opensrc"
    /\ "noopen" \in Outcomes
    /\ perm' = [perm EXCEPT ![CurKey] = "noopen"]
    /\ opened_sources' = opened_sources \cup {CurFile}
    /\ pc' = "except"
    /\ UNCHANGED << args, fs, idx, candidate_files, files_to_process, console,
                    exit_code, outfile, out_closes, infile, blocks, wfail,
                    run, prev >>

\* The end of one iteration of the loop of line 116.
NextFile ==
    /\ idx' = idx + 1
    /\ pc' = IF idx = Len(files_to_process) THEN "finish" ELSE "header"

\* What infile.read() returns: the file's content; of the output file
\* itself, which is open for writing, whatever part has reached the disk.
ReadResults ==
    IF CurKey = OutKey
    THEN { SubSeq(OutContent, 1, n) : n \in 0..Len(OutContent) }
    ELSE { fs[CurKey] }

\* Lines 126-127: read the content, write it, close the source.
CopySource ==
    /\ pc = "copy"
    /\ perm[CurKey] = "ok"
    /\ \E content \in ReadResults : WriteOut(content)
    /\ infile' = infile \ {CurFile}
    /\ NextFile
    /\ UNCHANGED << args, perm, candidate_files, files_to_process, console,
                    exit_code, outfile, out_closes, opened_sources, blocks,
                    wfail, run, prev >>

\* Mutant of CopyReadFail: the source handle is not closed on the error.
CopyReadFailLeak ==
    /\ pc = "copy"
    /\ perm[CurKey] = "noread"
    /\ pc' = "except"
    /\ UNCHANGED << args, fs, perm, idx, candidate_files, files_to_process,
                    console, exit_code, outfile, out_closes, infile,
                    opened_sources, blocks, wfail, run, prev >>

\* Line 126: infile.read() raises; the source is closed on the way out.
CopyReadFail ==
    /\ pc = "copy"
    /\ perm[CurKey] = "noread"
    /\ infile' = infile \ {CurFile}
    /\ pc' = "except"
    /\ UNCHANGED << args, fs, perm, idx, candidate_files, files_to_process,
                    console, exit_code, outfile, out_closes, opened_sources,
                    blocks, wfail, run, prev >>

\* Line 127: outfile.write(content) raises inside the inner try.
CopyWriteFail ==
    /\ pc = "copy"
    /\ perm[CurKey] = "ok"
    /\ faulty
    /\ wfail' = TRUE
    /\ infile' = infile \ {CurFile}
    /\ pc' = "except"
    /\ UNCHANGED << args, fs, perm, idx, candidate_files, files_to_process,
                    console, exit_code, outfile, out_closes, opened_sources,
                    blocks, run, prev >>

\* Mutant of WriteMarker: the error is printed but not written inline.
WriteMarkerConsoleOnly ==
    /\ pc = "except"
    /\ console' = Append(console, <<"readerr", CurFile>>)
    /\ NextFile
    /\ UNCHANGED << args, fs, perm, candidate_files, files_to_process,
                    exit_code, outfile, out_closes, infile, opened_sources,
                    blocks, wfail, run, prev >>

\* Lines 128-131: the per-file handler reports and writes the marker.
WriteMarker ==
    /\ pc = "except"
    /\ console' = Append(console, <<"readerr", CurFile>>)
    /\ WriteOut(ErrorMarker(CurFile))
    /\ NextFile
    /\ UNCHANGED << args, perm, candidate_files, files_to_process, exit_code,
                    outfile, out_closes, infile, opened_sources, blocks,
                    wfail, run, prev >>

\* Line 131: the write of the marker raises IOError.
WriteMarkerFail ==
    /\ pc = "except"
    /\ AbortOnWrite
    /\ UNCHANGED << args, fs, perm, idx, candidate_files, files_to_process,
                    infile, opened_sources, blocks, run, prev >>

\* Lines 115, 133: the with block ends, the output is closed, success.
CloseOutput ==
    /\ pc = "finish"
    /\ outfile' = "closed"
    /\ out_closes' = out_closes + 1
    /\ console' = Append(console, <<"ok", output_file>>)
    /\ exit_code' = 0
    /\ pc' = "done"
    /\ UNCHANGED << args, fs, perm, idx, candidate_files, files_to_process,
                    infile, opened_sources, blocks, wfail, run, prev >>

\* Line 115: the flush made by the close raises IOError.
CloseOutputFail ==
    /\ pc = "finish"
    /\ AbortOnWrite
    /\ UNCHANGED << args, fs, perm, idx, candidate_files, files_to_process,
                    infile, opened_sources, blocks, run, prev >>

\* The operator runs the same command a second time.
Rerun ==
    /\ pc = "done"
    /\ run = 1
    /\ prev' = [out |-> OutState, exit |-> exit_code, wfail |-> wfail]
    /\ run' = run + 1
    /\ pc' = "discover"
    /\ idx' = 1
    /\ candidate_files' = {}
    /\ files_to_process' = <<>>
    /\ console' = <<>>
    /\ exit_code' = -1
    /\ outfile' = "none"
    /\ out_closes' = 0
    /\ infile' = {}
    /\ opened_sources' = {}
    /\ blocks' = <<>>
    /\ wfail' = FALSE
    /\ UNCHANGED << args, fs, perm >>

Next ==
    \/ DiscoverDir \/ DiscoverGlob \/ Filter \/ EmptyExit \/ SortAndList
    \/ OpenOutput \/ OpenOutputFail \/ WriteHeader \/ WriteHeaderFail
    \/ OpenSource \/ OpenSourceFail \/ CopySource \/ CopyReadFail
    \/ CopyWriteFail \/ WriteMarker \/ WriteMarkerFail \/ CloseOutput
    \/ CloseOutputFail \/ Rerun

Spec == Init /\ [][Next]_vars

\* ---------------------------------------------------------- properties
Reported(kind, arg) == \E m \in 1..Len(console) : console[m] = <<kind, arg>>

\* The candidates the filter keeps, and whether the output is one of them.
Survivors == Surviving(candidate_files, exclude_patterns)
OutputMerged == \E k \in 1..Len(files_to_process) :
                    Normpath(files_to_process[k]) = OutKey

\* The input specifications discovery has dealt with so far.
Processed == IF pc = "discover" THEN 1..(idx - 1) ELSE 1..Len(input_paths)

\* C1: the k-th block written is the k-th smallest surviving path string,
\* and a run that ends with exit status 0 has written a block for every
\* surviving path: the blocks are the survivors in lexicographic order.
C1_SortedBlocks ==
    /\ \A k \in 1..Len(blocks) :
          /\ blocks[k] \in Survivors
          /\ Cardinality({ f \in Survivors : StrLess(f, blocks[k]) }) = k - 1
    /\ (pc = "done" /\ exit_code = 0) => Len(blocks) = Cardinality(Survivors)

C1_Witness ==
    /\ pc = "done" /\ exit_code = 0 /\ Len(blocks) >= 3
    /\ Len(input_paths) = 2
    /\ Len(exclude_patterns) > 0

\* The three rules of the exclusion filter, for one pattern.
RuleBaseName(f, p) == Fnmatch(Basename(f), p)
RuleFullPath(f, p) == Fnmatch(f, p)
RuleDirPrefix(f, p) ==
    EndsWithSep(p) /\ StartsWith(Normpath(f), Normpath(p) \o <<SEP>>)
Matches(f, p) == RuleBaseName(f, p) \/ RuleFullPath(f, p) \/ RuleDirPrefix(f, p)

\* C2: a path that some exclusion pattern matches, at any position of the
\* list, is neither kept by the filter nor written as a block.
C2_ExcludedNeverWritten ==
    \A j \in 1..Len(exclude_patterns) :
        /\ \A k \in 1..Len(blocks) : ~Matches(blocks[k], exclude_patterns[j])
        /\ \A k \in 1..Len(files_to_process) :
               ~Matches(files_to_process[k], exclude_patterns[j])

C2_Witness ==
    /\ pc = "done" /\ blocks # <<>>
    /\ Len(exclude_patterns) = 2
    /\ \E f \in candidate_files :
          /\ ~Matches(f, exclude_patterns[1])
          /\ RuleDirPrefix(f, exclude_patterns[2])
          /\ ~RuleBaseName(f, exclude_patterns[2])
          /\ ~RuleFullPath(f, exclude_patterns[2])

\* C3 (as claimed): without --include-hidden no block is written for a path
\* with a hidden segment.
C3_NoHiddenBlock ==
    ~include_hidden => \A k \in 1..Len(blocks) : ~HasHiddenSegment(blocks[k])

\* C4: when the filter keeps nothing the output is never opened, the output
\* file stays as it was (absent, or with its old content), and the run ends
\* with exit status 1 and the error on the console.
C4_EmptyLeavesOutput ==
    (pc # "discover" /\ Survivors = {}) =>
        /\ outfile = "none" /\ out_closes = 0
        /\ OutState = prev.out
        /\ blocks = <<>>
        /\ pc \in {"check", "done"}
        /\ pc = "done" => (exit_code = 1 /\ Reported("empty", <<>>))

C4_Witness ==
    /\ pc = "done" /\ run = 1
    /\ candidate_files # {} /\ Survivors = {}
    /\ OutState = <<OldContent>>

\* C5: when the output cannot be opened nothing is written, no source file
\* is opened, and the run ends with exit status 1 and the error reported.
C5_OpenFailureIsFatal ==
    ~CanOpenForWrite(output_file) =>
        /\ outfile = "none" /\ out_closes = 0
        /\ blocks = <<>> /\ opened_sources = {} /\ infile = {}
        /\ OutState = prev.out
        /\ pc = "done" =>
              /\ exit_code = 1
              /\ files_to_process # <<>> => Reported("outerr", output_file)

C5_Witness ==
    /\ pc = "done" /\ ~CanOpenForWrite(output_file)
    /\ Len(files_to_process) >= 2
    /\ Reported("outerr", output_file)

\* Some position of the output holds the header of f followed by entries.
HeaderFollowedBy(f, entries) ==
    \E j \in 1..Len(OutContent) :
        /\ OutContent[j] = Header(f)[1]
        /\ j + Len(entries) <= Len(OutContent)
        /\ SubSeq(OutContent, j + 1, j + Len(entries)) = entries

\* C6: in a run whose output opened and whose writes to the output all
\* succeeded, every file that could not be opened or read has its header
\* followed by its error marker (and the error on the console), every
\* other file other than the output itself has its header followed by its
\* content, every surviving file has its block, in order, and the exit
\* status is 0.
C6_ReadErrorsAreInline ==
    (pc = "done" /\ outfile = "closed" /\ ~wfail) =>
        /\ exit_code = 0
        /\ blocks = files_to_process
        /\ \A k \in 1..Len(files_to_process) :
              LET f == files_to_process[k]
              IN  IF perm[Normpath(f)] \in {"noopen", "noread"}
                  THEN /\ HeaderFollowedBy(f, ErrorMarker(f))
                       /\ Reported("readerr", f)
                  ELSE /\ perm[Normpath(f)] = "ok"
                       /\ Normpath(f) # OutKey =>
                              HeaderFollowedBy(f, fs[Normpath(f)])

C6_Witness ==
    /\ pc = "done" /\ exit_code = 0 /\ ~wfail
    /\ Len(files_to_process) >= 2
    /\ \A k \in 1..Len(files_to_process) :
           perm[Normpath(files_to_process[k])] \in {"noopen", "noread"}

\* C7 (as claimed): a second run with the same arguments, both runs without
\* a failed write, leaves the output file as the first run left it.
C7_Idempotent ==
    (run > 1 /\ pc = "done" /\ ~wfail /\ ~prev.wfail) => OutState = prev.out

\* C7 (amended): the same, for runs that do not merge the output file itself.
C7_IdempotentOutsideInputs ==
    (run > 1 /\ pc = "done" /\ ~wfail /\ ~prev.wfail /\ ~OutputMerged) =>
        /\ OutState = prev.out
        /\ exit_code = prev.exit

C7_Witness ==
    /\ run > 1 /\ pc = "done" /\ ~wfail /\ ~prev.wfail /\ ~OutputMerged
    /\ exit_code = 0 /\ Len(blocks) >= 2
    /\ \E k \in 1..Len(blocks) : perm[Normpath(blocks[k])] = "noread"

\* C8 (as claimed): the exit status is non-zero only when the filter kept
\* nothing or the output could not be opened.
C8_TwoFatalCases ==
    (pc = "done" /\ exit_code # 0) =>
        (files_to_process = <<>> \/ ~CanOpenForWrite(output_file))

\* C8 (amended): the exit status is non-zero exactly when the filter kept
\* nothing, the output could not be opened, or a write to the output raised
\* outside the per-file handler's try block; a run that ends with exit
\* status 0 has written a block for every surviving file.
C8_ThreeFatalCases ==
    pc = "done" =>
        /\ exit_code \in {0, 1}
        /\ exit_code # 0 <=>
              \/ files_to_process = <<>>
              \/ ~CanOpenForWrite(output_file)
              \/ (wfail /\ Reported("outerr", output_file))
        /\ exit_code = 0 => blocks = files_to_process

C8_Witness ==
    /\ pc = "done" /\ exit_code = 1 /\ wfail
    /\ files_to_process # <<>> /\ CanOpenForWrite(output_file)
    /\ Len(blocks) >= 2

\* C9: at most one source handle is open, none is open when the next block
\* starts or when the per-file handler runs, the output handle is open all
\* through the merge, and when the run has ended no source handle is open
\* and the output handle was closed once if it was opened, never otherwise.
C9_Handles ==
    /\ Cardinality(infile) <= 1
    /\ pc \in {"header", "opensrc", "except", "finish", "done"} => infile = {}
    /\ pc \in {"header", "opensrc", "copy", "except", "finish"} =>
           (outfile = "open" /\ out_closes = 0)
    /\ pc = "copy" => infile = {CurFile}
    /\ pc = "done" =>
           /\ outfile \in {"none", "closed"}
           /\ out_closes = (IF outfile = "closed" THEN 1 ELSE 0)

C9_Witness ==
    /\ pc = "done" /\ outfile = "closed" /\ out_closes = 1
    /\ Len(blocks) >= 2
    /\ \E k \in 1..Len(blocks) : perm[Normpath(blocks[k])] = "noread"

\* C10 (as claimed): a specification is warned about exactly when it is
\* not a directory, has no wildcard metacharacter ('*', '?', '[') and
\* expands to nothing.
C10_WarnIffLiteralUnmatched ==
    \A k \in Processed :
        Reported("warn", input_paths[k]) <=>
            /\ ~IsDir(input_paths[k])
            /\ ~HasMagic(input_paths[k])
            /\ Glob(input_paths[k]) = {}

====
